---------------------------- MODULE Spec2Model ----------------------------
(***************************************************************************)
(* A model of the argument materialization core                            *)
(* (runtime/common/ArgumentConversion.cpp) and of the circuit renderer     *)
(* (runtime/cudaq/algorithms/draw.cpp).                                    *)
(*                                                                         *)
(* Host memory is a byte array; IR values are modelled by their            *)
(* denotation: a constant by its bit pattern, an aggregate by its fields.  *)
(***************************************************************************)
EXTENDS Integers, Sequences, FiniteSets, TLC

VARIABLES
  inputs,         \* fromFuncTy.getInputs(): the kernel's formal parameter types
  platform,       \* PlatformSettings: [isSimulator, isRemote]
  layout,         \* the llvm::DataLayout built from the module attribute
  mem,            \* host memory: address -> byte
  st,             \* the cudaq::state object a state argument points to
  substitutions,  \* ArgumentConverter::substitutions
  arguments,      \* the argument list of the most recent gen call
  prior,          \* substitutions.size() when the most recent gen call began
  evlog,          \* host-buffer events of the most recent gen call, in program order
  failure,        \* "none", or "not_implemented" once TODO was signalled
  calls           \* number of gen calls made

convVars == <<inputs, platform, layout, mem, st, substitutions, arguments,
              prior, evlog, failure, calls>>

VARIABLES
  trace,          \* the instruction trace handed to draw
  pc,             \* where draw is: "layers", "widths", "boxes", "render",
                  \* "done", "fault" (a write outside the grid), or "idle"
  ref,            \* index of the next instruction of the trace
  boxes,          \* the shape built for each instruction placed
  layers,         \* layers[l]: the refs of the instructions of layer l - 1
  layer_width,    \* layer_width[l]: the column width of layer l - 1
  wire_layer,     \* wire_layer[w]: the highest layer occupied on wire w - 1
  cols,           \* cols[r]: left_col_ and right_col_ of box r - 1
  cutting_point,  \* the columns at which the output is cut
  rows,           \* rows[r][c]: the cell of row r - 1, column c - 1
  drawn,          \* the number of boxes drawn
  output          \* the string draw returned, as code points

drawVars == <<trace, pc, ref, boxes, layers, layer_width, wire_layer,
              cols, cutting_point, rows, drawn, output>>

VARIABLES
  cell,           \* the grid cell merge_chars writes (its c0)
  incoming,       \* the glyph merged into the cell (its c1)
  before          \* what the cell held before the merge; -1 before any merge

mergeVars == <<cell, incoming, before>>

vars == <<convVars, drawVars, mergeVars>>

-----------------------------------------------------------------------------
(* Bounds of the model. *)

\* Size of the host data region holding scalar and aggregate arguments.
DataBytes == 16
\* Largest end - begin of a host vector, in bytes.
MaxVecBytes == 5
\* Largest number of amplitudes of a state.
MaxAmps == 2
\* Largest number of gen calls on one converter.
MaxCalls == 2

(* Host ABI constants. *)
PtrBytes == 8
LongDoubleBytes == 16
ComplexFloatBytes == 8
ComplexDoubleBytes == 16

-----------------------------------------------------------------------------
(* The type algebra. *)

Ty(k, n, sub) == [k |-> k, n |-> n, sub |-> sub]

NoType == Ty("none", 0, <<>>)
IntegerType(bits) == Ty("int", bits, <<>>)
FloatType(bits) == Ty("float", bits, <<>>)
Float32Type == FloatType(32)
Float64Type == FloatType(64)
ComplexType(e) == Ty("complex", 0, <<e>>)
CharspanType == Ty("charspan", 0, <<>>)
StateType == Ty("state", 0, <<>>)
PointerType(e) == Ty("ptr", 0, <<e>>)
StdvecType(e) == Ty("stdvec", 0, <<e>>)
\* n = -1 stands for an array of unknown size
ArrayType(e, n) == Ty("array", n, <<e>>)
StructType(members) == Ty("struct", 0, members)
TupleType(types) == Ty("tuple", 0, types)

isUnknownSize(arrTy) == arrTy.n < 0

Reverse(s) == [i \in 1..Len(s) |-> s[Len(s) + 1 - i]]

Max(a, b) == IF a >= b THEN a ELSE b
Min(a, b) == IF a <= b THEN a ELSE b

-----------------------------------------------------------------------------
(* The data-layout collaborator.  layout.abi is the largest alignment the  *)
(* layout applies: 1 is a packed layout, 8 the natural layout.             *)

RoundUp(x, a) == ((x + a - 1) \div a) * a

RECURSIVE Pow2Ceil(_, _)
Pow2Ceil(x, p) == IF p >= x THEN p ELSE Pow2Ceil(x, 2 * p)

RECURSIVE getDataAlign(_, _)
RECURSIVE MaxAlign(_, _, _)
MaxAlign(lay, members, i) ==
  IF i > Len(members) THEN 1
  ELSE Max(getDataAlign(lay, members[i]), MaxAlign(lay, members, i + 1))

getDataAlign(lay, ty) ==
  CASE ty.k = "int" -> Min(Pow2Ceil((ty.n + 7) \div 8, 1), lay.abi)
    [] ty.k = "float" -> Min(Pow2Ceil((ty.n + 7) \div 8, 1), lay.abi)
    [] ty.k = "complex" -> getDataAlign(lay, ty.sub[1])
    [] ty.k = "ptr" -> Min(PtrBytes, lay.abi)
    [] ty.k = "array" -> getDataAlign(lay, ty.sub[1])
    [] ty.k \in {"struct", "tuple"} -> MaxAlign(lay, ty.sub, 1)

RECURSIVE getDataSize(_, _)
RECURSIVE getDataOffset(_, _, _)
RECURSIVE StructEnd(_, _, _)

\* first byte after member i (0-based) of a record; 0 for i = -1
StructEnd(lay, strTy, i) ==
  IF i < 0 THEN 0
  ELSE getDataOffset(lay, strTy, i) + getDataSize(lay, strTy.sub[i + 1])

getDataOffset(lay, strTy, i) ==
  RoundUp(StructEnd(lay, strTy, i - 1), getDataAlign(lay, strTy.sub[i + 1]))

getDataSize(lay, ty) ==
  CASE ty.k = "int" ->
         RoundUp((ty.n + 7) \div 8, getDataAlign(lay, ty))
    [] ty.k = "float" -> Pow2Ceil((ty.n + 7) \div 8, 1)
    [] ty.k = "complex" -> 2 * getDataSize(lay, ty.sub[1])
    [] ty.k = "ptr" -> PtrBytes
    [] ty.k = "array" -> Max(ty.n, 0) * getDataSize(lay, ty.sub[1])
    [] ty.k \in {"struct", "tuple"} ->
         RoundUp(StructEnd(lay, ty, Len(ty.sub) - 1), getDataAlign(lay, ty))

-----------------------------------------------------------------------------
(* Host memory. *)

HdrAddr == DataBytes                   \* a std::vector object {begin, end, capacity}
StrAddr == HdrAddr + 3 * PtrBytes      \* a std::string object {data, size, ...}
StateAddr == StrAddr + 4 * PtrBytes    \* a cudaq::state object
MemSize == StateAddr + PtrBytes
TensorBase == MemSize                  \* the backend's tensor data
CopyBase == TensorBase + MaxAmps * ComplexDoubleBytes  \* where new[] allocates

\* The amplitudes of the state, byte by byte.
AmpByte(off) == (off * 5 + 1) % 256

\* The byte at address a.
Mem(a) ==
  IF a < MemSize THEN mem[a]
  ELSE IF a < CopyBase THEN AmpByte(a - TensorBase)
  ELSE AmpByte(a - CopyBase)

Load(p, n) == [i \in 1..n |-> Mem(p + i - 1)]

RECURSIVE LittleEndian(_, _)
LittleEndian(bytes, i) ==
  IF i > Len(bytes) THEN 0 ELSE bytes[i] + 256 * LittleEndian(bytes, i + 1)

\* A machine pointer (or size_t) stored at p.
LoadPtr(p) == LittleEndian(Load(p, PtrBytes), 1)

-----------------------------------------------------------------------------
(* IR values, by denotation.  x holds the bit pattern of a constant read   *)
(* from memory (little-endian bytes), the number of a computed constant,   *)
(* or the fields of an aggregate.                                          *)

Val(k, t, x) == [k |-> k, t |-> t, x |-> x]

NullValue == Val("null", NoType, <<>>)       \* the empty Value {}
AbortValue == Val("abort", NoType, <<>>)     \* control never returned
UndefOp(t) == Val("undef", t, <<>>)          \* cc.undef, or a slot never written

\* An emission: the value built, and the host-buffer events it caused.
Emit(v, ev) == [v |-> v, ev |-> ev]

Event(e, a, n, own) == [e |-> e, a |-> a, n |-> n, own |-> own]
ReadEvent(p, n) == Event("read", p, n, FALSE)

\* arith.constant of a value read from n bytes at p
genIntegerConstant(p, n, bits) ==
  Emit(Val("int", IntegerType(bits), Load(p, n)), <<ReadEvent(p, n)>>)

\* arith.constant of a number the converter computed itself
ConstantIntOp(v, bits) == Val("cint", IntegerType(bits), <<v>>)

genFloatConstant(p, n, fltTy) ==
  Emit(Val("float", fltTy, Load(p, n)), <<ReadEvent(p, n)>>)

\* the value is rendered to decimal text by std::to_string and parsed back
genLongDoubleConstant(p, fltTy) ==
  Emit(Val("float_decimal", fltTy, Load(p, LongDoubleBytes)),
       <<ReadEvent(p, LongDoubleBytes)>>)

\* complex.constant [re, im]
genComplexConstant(p, n, fTy) ==
  Emit(Val("complex", ComplexType(fTy),
           <<Val("float", fTy, Load(p, n \div 2)),
             Val("float", fTy, Load(p + n \div 2, n \div 2))>>),
       <<ReadEvent(p, n)>>)

\* the characters of the std::string object at p
HostString(p) == Load(LoadPtr(p), LoadPtr(p + PtrBytes))

\* a NUL-terminated literal, its address cast to i8*, and the 64-bit size
genStringConstant(p) ==
  LET v == HostString(p)
  IN Emit(Val("stdvec_init", CharspanType,
              <<Val("cstring", PointerType(IntegerType(8)), v \o <<0>>),
                ConstantIntOp(Len(v), 64)>>),
          <<ReadEvent(LoadPtr(p), Len(v))>>)

-----------------------------------------------------------------------------
(* StateData::readStateData *)

\* [data, size, elementSize, owned]: owned iff the deleter frees data
readStateData(state) ==
  LET numElements == state.n
      elementSize == IF state.fp64 THEN ComplexDoubleBytes ELSE ComplexFloatBytes
  IN IF state.gpu
     THEN [data |-> CopyBase, size |-> numElements,
           elementSize |-> elementSize, owned |-> TRUE]
     ELSE [data |-> TensorBase, size |-> numElements,
           elementSize |-> elementSize, owned |-> FALSE]

AcquireEvent(sd) == Event("acquire", sd.data, sd.size * sd.elementSize, sd.owned)

\* ~StateData: the releaser runs on the buffer
StateDataDtor(sd) == Event("release", sd.data, sd.size * sd.elementSize, sd.owned)

\* TODO(msg): report "not yet implemented" and end the process
TODO == Emit(AbortValue, <<>>)

-----------------------------------------------------------------------------
(* The aggregate walker: dispatchSubtype and the genConstant overloads.    *)

Int32Max == 2147483647

\* the conversion of a non-negative quotient to std::int32_t
ToInt32(x) == IF x > Int32Max THEN ((x - Int32Max) - Int32Max) - 2 ELSE x

IsNull(v) == v.k = "null"
IsAbort(v) == v.k = "abort"

\* cc.insert_value aggie[i], i counted from 0
InsertValueOp(aggie, v, i) == [aggie EXCEPT !.x[i + 1] = v]
\* cc.extract_value agg[i], i counted from 0
ExtractValueOp(agg, i) == agg.x[i + 1]

\* cc.undef of an aggregate type: every field undefined
UndefAggregate(ty) ==
  IF ty.k = "array"
  THEN Val("agg", ty, [j \in 1..ty.n |-> UndefOp(ty.sub[1])])
  ELSE Val("agg", ty, [j \in 1..Len(ty.sub) |-> UndefOp(ty.sub[j])])

RECURSIVE dispatchSubtype(_, _)
RECURSIVE genConstantTuple(_, _)
RECURSIVE genConstantStdvec(_, _)
RECURSIVE genConstantStruct(_, _)
RECURSIVE genConstantArray(_, _)
RECURSIVE StructLoop(_, _, _, _, _)
RECURSIVE ArrayLoop(_, _, _, _, _)
RECURSIVE StdvecLoop(_, _, _, _, _, _)

\* genConstantState with a fallback on hardware: the raw pointer
genConstantStateFallback(v) ==
  IF platform.isSimulator /\ platform.isRemote
  THEN LET stateData == readStateData(st)
           eleTy == IF stateData.elementSize = ComplexDoubleBytes
                    THEN ComplexType(Float64Type)
                    ELSE ComplexType(Float32Type)
           con == genConstantArray(ArrayType(eleTy, stateData.size),
                                   stateData.data)
       IN Emit(con.v,
               <<AcquireEvent(stateData)>> \o con.ev
                 \o <<StateDataDtor(stateData)>>)
  ELSE Emit(Val("cast", PointerType(StateType),
                <<ConstantIntOp(v, PtrBytes * 8)>>), <<>>)

\* genConstantState with the StateData a temporary that dies before the
\* array is emitted from its data pointer
genConstantStateEarlyRelease(v) ==
  IF platform.isSimulator /\ ~platform.isRemote
  THEN Emit(Val("cast", PointerType(StateType),
                <<ConstantIntOp(v, PtrBytes * 8)>>), <<>>)
  ELSE IF platform.isSimulator /\ platform.isRemote
  THEN LET stateData == readStateData(st)
           eleTy == IF stateData.elementSize = ComplexDoubleBytes
                    THEN ComplexType(Float64Type)
                    ELSE ComplexType(Float32Type)
           con == genConstantArray(ArrayType(eleTy, stateData.size),
                                   stateData.data)
       IN Emit(con.v,
               <<AcquireEvent(stateData), StateDataDtor(stateData)>> \o con.ev)
  ELSE TODO

genConstantState(v) ==
  IF platform.isSimulator /\ ~platform.isRemote
  THEN Emit(Val("cast", PointerType(StateType),
                <<ConstantIntOp(v, PtrBytes * 8)>>), <<>>)
  ELSE IF platform.isSimulator /\ platform.isRemote
  THEN LET stateData == readStateData(st)
           eleTy == IF stateData.elementSize = ComplexDoubleBytes
                    THEN ComplexType(Float64Type)
                    ELSE ComplexType(Float32Type)
           arrTy == ArrayType(eleTy, stateData.size)
           \* return genConstant(...): stateData dies after the call
           Return(con) == Emit(con.v,
                               <<AcquireEvent(stateData)>> \o con.ev
                                 \o <<StateDataDtor(stateData)>>)
       IN Return(genConstantArray(arrTy, stateData.data))
  ELSE TODO

dispatchSubtype(ty, p) ==
  CASE ty.k = "int" ->
         (CASE ty.n = 1 -> genIntegerConstant(p, 1, 1)
            [] ty.n = 8 -> genIntegerConstant(p, 1, 8)
            [] ty.n = 16 -> genIntegerConstant(p, 2, 16)
            [] ty.n = 32 -> genIntegerConstant(p, 4, 32)
            [] ty.n = 64 -> genIntegerConstant(p, 8, 64)
            [] OTHER -> Emit(NullValue, <<>>))
    [] ty = Float32Type -> genFloatConstant(p, 4, ty)
    [] ty = Float64Type -> genFloatConstant(p, 8, ty)
    [] ty.k = "float" /\ ty.n \notin {32, 64} -> genLongDoubleConstant(p, ty)
    [] ty.k = "complex" ->
         IF ty.sub[1] = Float32Type
         THEN genComplexConstant(p, ComplexFloatBytes, Float32Type)
         ELSE IF ty.sub[1] = Float64Type
         THEN genComplexConstant(p, ComplexDoubleBytes, Float64Type)
         ELSE Emit(NullValue, <<>>)
    [] ty.k = "charspan" -> genStringConstant(p)
    [] ty.k = "ptr" ->
         IF ty.sub[1] = StateType
         THEN genConstantState(p)
         ELSE Emit(NullValue, <<>>)
    [] ty.k = "stdvec" -> genConstantStdvec(ty, p)
    [] ty.k = "struct" -> genConstantStruct(ty, p)
    [] ty.k = "array" -> genConstantArray(ty, p)
    [] ty.k = "tuple" -> genConstantTuple(ty, p)
    [] OTHER -> Emit(NullValue, <<>>)

\* genConstantTuple rebuilding the aggregate without inverting the order
genConstantTupleForward(tupTy, p) ==
  IF tupTy.sub = <<>> THEN Emit(NullValue, <<>>)
  ELSE LET revCon == genConstantStruct(StructType(Reverse(tupTy.sub)), p)
           fwdTy == StructType(tupTy.sub)
       IN IF IsAbort(revCon.v) THEN revCon
          ELSE Emit(Val("agg", fwdTy,
                        [j \in 1..Len(fwdTy.sub) |-> ExtractValueOp(revCon.v, j - 1)]),
                    revCon.ev)

\* Clang++ lays std::tuples out in reverse order.
genConstantTuple(tupTy, p) ==
  IF tupTy.sub = <<>> THEN Emit(NullValue, <<>>)
  ELSE LET members == Reverse(tupTy.sub)
           strTy == StructType(members)
           fwdTy == StructType(tupTy.sub)
           n == Len(tupTy.sub)
           \* aggie[i] = revCon[n - i - 1] for every i
           Swap(revCon) ==
             IF IsAbort(revCon.v) THEN revCon
             ELSE Emit(Val("agg", fwdTy,
                           [j \in 1..n |->
                              ExtractValueOp(revCon.v, n - (j - 1) - 1)]),
                       revCon.ev)
       IN Swap(genConstantStruct(strTy, p))

\* StdvecLoop with a cursor that never advances
RECURSIVE StdvecLoopStuck(_, _, _, _, _, _)
StdvecLoopStuck(eleTy, vecSize, i, cursor, buffer, ev) ==
  IF ~(i < vecSize) THEN Emit(buffer, ev)
  ELSE LET val == dispatchSubtype(eleTy, cursor)
       IN IF IsAbort(val.v) THEN Emit(AbortValue, ev \o val.ev)
          ELSE StdvecLoopStuck(eleTy, vecSize, i + 1, cursor,
                               IF IsNull(val.v) THEN buffer
                               ELSE InsertValueOp(buffer, val.v, i),
                               ev \o val.ev)

\* the loop over the elements: i is the index, cursor the host address
StdvecLoop(eleTy, vecSize, i, cursor, buffer, ev) ==
  IF ~(i < vecSize) THEN Emit(buffer, ev)
  ELSE LET eleSize == getDataSize(layout, eleTy)
           \* if (val) store val at buffer[i]; cursor += eleSize
           Store(val) ==
             IF IsAbort(val.v) THEN Emit(AbortValue, ev \o val.ev)
             ELSE StdvecLoop(eleTy, vecSize, i + 1, cursor + eleSize,
                             IF IsNull(val.v) THEN buffer
                             ELSE InsertValueOp(buffer, val.v, i),
                             ev \o val.ev)
       IN Store(dispatchSubtype(eleTy, cursor))

genConstantStdvec(vecTy, p) ==
  LET begin == LoadPtr(p)
      end == LoadPtr(p + PtrBytes)
      delta == end - begin
  IN IF delta = 0 THEN Emit(NullValue, <<>>)
     ELSE LET eleTy == vecTy.sub[1]
              eleSize == getDataSize(layout, eleTy)
              \* cc.stdvec_init of the filled buffer and the 64-bit size
              StdvecInitOp(vecSize, filled) ==
                IF IsAbort(filled.v) THEN filled
                ELSE Emit(Val("stdvec_init", vecTy,
                              <<filled.v, ConstantIntOp(vecSize, 64)>>),
                          filled.ev)
              \* cc.alloca of vecSize elements, filled element by element
              Fill(vecSize) ==
                StdvecInitOp(vecSize,
                  StdvecLoop(eleTy, vecSize, 0, begin,
                             Val("alloca", ArrayType(eleTy, vecSize),
                                 [j \in 1..vecSize |-> UndefOp(eleTy)]),
                             <<>>))
          IN Fill(ToInt32(delta \div eleSize))

\* the sum of the sizes of the members before member i
RECURSIVE SumOfSizes(_, _)
SumOfSizes(members, i) ==
  IF i = 0 THEN 0
  ELSE SumOfSizes(members, i - 1) + getDataSize(layout, members[i])

\* StructLoop taking each member at the sum of the sizes before it
RECURSIVE StructLoopPacked(_, _, _, _, _)
StructLoopPacked(strTy, p, i, aggie, ev) ==
  IF ~(i < Len(strTy.sub)) THEN Emit(aggie, ev)
  ELSE LET v == dispatchSubtype(strTy.sub[i + 1], p + SumOfSizes(strTy.sub, i))
       IN IF IsAbort(v.v) THEN Emit(AbortValue, ev \o v.ev)
          ELSE StructLoopPacked(strTy, p, i + 1,
                                IF IsNull(v.v) THEN aggie
                                ELSE InsertValueOp(aggie, v.v, i),
                                ev \o v.ev)

StructLoop(strTy, p, i, aggie, ev) ==
  IF ~(i < Len(strTy.sub)) THEN Emit(aggie, ev)
  ELSE LET \* if (v) aggie = insert_value(aggie, v, i)
           InsertField(v) ==
             IF IsAbort(v.v) THEN Emit(AbortValue, ev \o v.ev)
             ELSE StructLoop(strTy, p, i + 1,
                             IF IsNull(v.v) THEN aggie
                             ELSE InsertValueOp(aggie, v.v, i),
                             ev \o v.ev)
       IN InsertField(dispatchSubtype(strTy.sub[i + 1],
                                 p + getDataOffset(layout, strTy, i)))

genConstantStruct(strTy, p) ==
  IF strTy.sub = <<>> THEN Emit(NullValue, <<>>)
  ELSE StructLoop(strTy, p, 0, UndefAggregate(strTy), <<>>)

ArrayLoop(arrTy, i, cursor, aggie, ev) ==
  IF ~(i < arrTy.n) THEN Emit(aggie, ev)
  ELSE LET eleSize == getDataSize(layout, arrTy.sub[1])
           \* if (v) aggie = insert_value(aggie, v, i); cursor += eleSize
           InsertElement(v) ==
             IF IsAbort(v.v) THEN Emit(AbortValue, ev \o v.ev)
             ELSE ArrayLoop(arrTy, i + 1, cursor + eleSize,
                            IF IsNull(v.v) THEN aggie
                            ELSE InsertValueOp(aggie, v.v, i),
                            ev \o v.ev)
       IN InsertElement(dispatchSubtype(arrTy.sub[1], cursor))

genConstantArray(arrTy, p) ==
  IF isUnknownSize(arrTy) THEN Emit(NullValue, <<>>)
  ELSE ArrayLoop(arrTy, 0, p, UndefAggregate(arrTy), <<>>)

-----------------------------------------------------------------------------
(* ArgumentConverter::gen *)

\* buildSubst keying every op by the first index
buildSubstStale(i, val) ==
  [subst |-> <<[idx |-> 0, body |-> val.v]>>, ev |-> val.ev,
   abort |-> IsAbort(val.v)]

\* the ArgumentSubstitutionOp keyed by i whose block holds the emitted chain;
\* val is dropped, the op is returned whatever genConstant returned
buildSubst(i, val) ==
  [subst |-> <<[idx |-> i, body |-> val.v]>>, ev |-> val.ev,
   abort |-> IsAbort(val.v)]

\* "return {}": no substitution op
NoSubst == [subst |-> <<>>, ev |-> <<>>, abort |-> FALSE]

\* the TypeSwitch over the formal type of parameter i
genSubst(argTy, argPtr, i) ==
  CASE argTy.k = "int" ->
         (CASE argTy.n = 1 -> buildSubst(i, genIntegerConstant(argPtr, 1, 1))
            [] argTy.n = 8 -> buildSubst(i, genIntegerConstant(argPtr, 1, 8))
            [] argTy.n = 16 -> buildSubst(i, genIntegerConstant(argPtr, 2, 16))
            [] argTy.n = 32 -> buildSubst(i, genIntegerConstant(argPtr, 4, 32))
            [] argTy.n = 64 -> buildSubst(i, genIntegerConstant(argPtr, 8, 64))
            [] OTHER -> NoSubst)
    [] argTy = Float32Type -> buildSubst(i, genFloatConstant(argPtr, 4, argTy))
    [] argTy = Float64Type -> buildSubst(i, genFloatConstant(argPtr, 8, argTy))
    [] argTy.k = "float" /\ argTy.n \notin {32, 64} ->
         buildSubst(i, genLongDoubleConstant(argPtr, argTy))
    [] argTy.k = "complex" ->
         IF argTy.sub[1] = Float32Type
         THEN buildSubst(i, genComplexConstant(argPtr, ComplexFloatBytes,
                                               Float32Type))
         ELSE IF argTy.sub[1] = Float64Type
         THEN buildSubst(i, genComplexConstant(argPtr, ComplexDoubleBytes,
                                               Float64Type))
         ELSE NoSubst
    [] argTy.k = "charspan" -> buildSubst(i, genStringConstant(argPtr))
    [] argTy.k = "ptr" ->
         IF argTy.sub[1] = StateType
         THEN buildSubst(i, genConstantState(argPtr))
         ELSE NoSubst
    [] argTy.k = "stdvec" -> buildSubst(i, genConstantStdvec(argTy, argPtr))
    [] argTy.k = "struct" -> buildSubst(i, genConstantStruct(argTy, argPtr))
    [] argTy.k = "array" -> buildSubst(i, genConstantArray(argTy, argPtr))
    [] argTy.k = "tuple" -> buildSubst(i, genConstantTuple(argTy, argPtr))
    [] OTHER -> NoSubst

\* the loop over zip(fromFuncTy.getInputs(), arguments), from index i on
RECURSIVE GenLoop(_, _, _, _)
GenLoop(args, i, subs, ev) ==
  IF ~(i < Min(Len(inputs), Len(args)))
  THEN [subs |-> subs, ev |-> ev, abort |-> FALSE]
  ELSE LET \* if (subst) substitutions.emplace_back(std::move(subst))
           EmplaceBack(subst) ==
             IF subst.abort
             THEN [subs |-> subs, ev |-> ev \o subst.ev, abort |-> TRUE]
             ELSE GenLoop(args, i + 1, subs \o subst.subst, ev \o subst.ev)
       IN EmplaceBack(genSubst(inputs[i + 1], args[i + 1], i))

-----------------------------------------------------------------------------
(* The kernels, platforms, layouts and host memories the converter is run  *)
(* on.                                                                     *)

I8 == IntegerType(8)
I16 == IntegerType(16)
I24 == IntegerType(24)
I32 == IntegerType(32)
I64 == IntegerType(64)
F80 == FloatType(80)
C32 == ComplexType(Float32Type)
C64 == ComplexType(Float64Type)
CF16 == ComplexType(FloatType(16))
PtrState == PointerType(StateType)
PtrI8 == PointerType(I8)

ParamTypes ==
  { I8, I16, I24, I32, I64, Float32Type, Float64Type, F80, C32, C64, CF16,
    CharspanType, PtrState, PtrI8,
    StdvecType(I8), StdvecType(I16), StdvecType(I24),
    StdvecType(TupleType(<<I8, I16>>)),
    TupleType(<<I8, I32>>), TupleType(<<I32, I8>>),
    TupleType(<<I8, I16, I32>>), TupleType(<<>>), TupleType(<<I8, I24>>),
    TupleType(<<I8, TupleType(<<I16, I8>>)>>),
    StructType(<<I8, I32>>), StructType(<<>>), StructType(<<PtrState, I8>>),
    ArrayType(I16, 2), ArrayType(I8, -1), ArrayType(TupleType(<<I16, I8>>), 2) }

Kernels ==
  { <<t>> : t \in ParamTypes } \cup
  { <<I32, Float64Type>>, <<I24, I8>>, <<TupleType(<<>>), I16>>,
    <<StdvecType(I8), ArrayType(I8, -1)>>, <<PtrState, I8>>, <<I8, PtrState>>,
    <<PtrI8, TupleType(<<I8, I32>>)>>, <<I8, I24, I16>>,
    <<PtrState, PtrState>> }

RECURSIVE Mentions(_, _)
RECURSIVE AnyMentions(_, _, _)
AnyMentions(types, kind, i) ==
  i <= Len(types) /\ (Mentions(types[i], kind) \/ AnyMentions(types, kind, i + 1))

\* whether a type is of this kind or has a component of this kind
Mentions(ty, kind) == ty.k = kind \/ AnyMentions(ty.sub, kind, 1)

Platforms == [isSimulator : BOOLEAN, isRemote : BOOLEAN]
Layouts == { [abi |-> 1], [abi |-> 8] }
States == [gpu : BOOLEAN, fp64 : BOOLEAN, n : 1..MaxAmps]

\* host data: the bytes 2A 00 00 00 FF at 8..12, pairwise different bytes around
DataByte(a) ==
  IF a \in 8..12 THEN <<42, 0, 0, 0, 255>>[a - 7] ELSE (a * 17 + 3) % 256

\* byte j of the machine word v, least significant first
WordByte(v, j) ==
  IF j = 0 THEN v % 256 ELSE IF j = 1 THEN (v \div 256) % 256 ELSE 0

\* a memory whose vector object is {begin, end, end} and whose string object
\* holds the 2 characters at address 1
Image(begin, end) ==
  [a \in 0..(MemSize - 1) |->
     IF a < DataBytes THEN DataByte(a)
     ELSE IF a < HdrAddr + PtrBytes THEN WordByte(begin, a - HdrAddr)
     ELSE IF a < StrAddr THEN WordByte(end, (a - HdrAddr) % PtrBytes)
     ELSE IF a < StrAddr + PtrBytes THEN WordByte(1, a - StrAddr)
     ELSE IF a < StrAddr + 2 * PtrBytes THEN WordByte(2, a - StrAddr - PtrBytes)
     ELSE 0]

VecShapes ==
  { be \in {0, 8} \X (0..DataBytes) :
      be[1] <= be[2] /\ be[2] - be[1] <= MaxVecBytes }

RECURSIVE HostExtent(_, _)
RECURSIVE MembersExtent(_, _, _)
\* the bytes of the data region an argument of this type at p occupies
MembersExtent(lay, strTy, i) ==
  IF i >= Len(strTy.sub) THEN 0
  ELSE Max(getDataOffset(lay, strTy, i) + HostExtent(lay, strTy.sub[i + 1]),
           MembersExtent(lay, strTy, i + 1))

HostExtent(lay, ty) ==
  CASE ty.k = "int" -> IF ty.n \in {1, 8, 16, 32, 64} THEN (ty.n + 7) \div 8 ELSE 0
    [] ty.k = "float" -> IF ty.n \in {32, 64} THEN ty.n \div 8 ELSE LongDoubleBytes
    [] ty.k = "complex" -> IF ty.sub[1] = Float32Type THEN ComplexFloatBytes
                           ELSE IF ty.sub[1] = Float64Type THEN ComplexDoubleBytes
                           ELSE 0
    [] ty.k = "array" ->
         IF ty.n <= 0 THEN 0
         ELSE (ty.n - 1) * getDataSize(lay, ty.sub[1]) + HostExtent(lay, ty.sub[1])
    [] ty.k = "struct" -> MembersExtent(lay, ty, 0)
    [] ty.k = "tuple" -> MembersExtent(lay, StructType(Reverse(ty.sub)), 0)
    [] OTHER -> 0

\* the pointers a caller may pass for a parameter of this type
ArgPtrs(ty) ==
  CASE ty.k = "stdvec" -> {HdrAddr}
    [] ty.k = "charspan" -> {StrAddr}
    [] ty.k = "ptr" -> {StateAddr}
    [] OTHER -> { a \in {0, 8} : a + HostExtent(layout, ty) <= DataBytes }

\* the argument lists of length n: one pointer per leading parameter
RECURSIVE ArgListsOfLen(_)
ArgListsOfLen(n) ==
  IF n = 0 THEN {<<>>}
  ELSE { Append(args, ptr) : args \in ArgListsOfLen(n - 1),
                             ptr \in ArgPtrs(inputs[n]) }

ArgLists == UNION { ArgListsOfLen(n) : n \in 0..Len(inputs) }

-----------------------------------------------------------------------------
(* The converter as a state machine. *)

\* the renderer at rest
DrawIdle ==
  /\ trace = <<>>
  /\ pc = "idle"
  /\ ref = 0
  /\ boxes = <<>>
  /\ layers = <<>>
  /\ layer_width = <<>>
  /\ wire_layer = <<>>
  /\ cols = <<>>
  /\ cutting_point = <<>>
  /\ rows = <<>>
  /\ drawn = 0
  /\ output = <<>>

\* no cell being merged
MergeIdle ==
  /\ cell = 32
  /\ incoming = 32
  /\ before = -1

\* no converter constructed
ConvIdle ==
  /\ inputs = <<>>
  /\ layout = [abi |-> 1]
  /\ platform = [isSimulator |-> TRUE, isRemote |-> FALSE]
  /\ st = [gpu |-> FALSE, fp64 |-> TRUE, n |-> 1]
  /\ mem = Image(0, 0)
  /\ substitutions = <<>>
  /\ arguments = <<>>
  /\ prior = 0
  /\ evlog = <<>>
  /\ failure = "none"
  /\ calls = 0

Init ==
  /\ DrawIdle
  /\ MergeIdle
  /\ inputs \in Kernels
  /\ layout \in Layouts
  /\ platform \in IF AnyMentions(inputs, "state", 1) THEN Platforms
                  ELSE {[isSimulator |-> TRUE, isRemote |-> FALSE]}
  /\ st \in IF AnyMentions(inputs, "state", 1) THEN States
            ELSE {[gpu |-> FALSE, fp64 |-> TRUE, n |-> 1]}
  /\ \E be \in IF AnyMentions(inputs, "stdvec", 1) THEN VecShapes ELSE {<<0, 0>>} :
       mem = Image(be[1], be[2])
  /\ substitutions = <<>>
  /\ arguments = <<>>
  /\ prior = 0
  /\ evlog = <<>>
  /\ failure = "none"
  /\ calls = 0

gen ==
  /\ failure = "none"
  /\ calls < MaxCalls
  /\ \E args \in ArgLists :
       \E run \in {GenLoop(args, 0, substitutions, <<>>)} :
          /\ substitutions' = run.subs
          /\ arguments' = args
          /\ prior' = Len(substitutions)
          /\ evlog' = run.ev
          /\ failure' = IF run.abort THEN "not_implemented" ELSE "none"
  /\ calls' = calls + 1
  /\ UNCHANGED <<inputs, platform, layout, mem, st>>
  /\ UNCHANGED <<drawVars, mergeVars>>

Next == gen

Spec == Init /\ [][Next]_vars

-----------------------------------------------------------------------------
(* Properties of the argument converter. *)

\* the records the most recent gen call appended
LastCall == SubSeq(substitutions, prior + 1, Len(substitutions))
\* the parameter indices (from 0) the most recent gen call iterated over
Params == 0..(Min(Len(inputs), Len(arguments)) - 1)
HasRecord(i) == \E j \in 1..Len(LastCall) : LastCall[j].idx = i
RecordOf(i) == LastCall[CHOOSE j \in 1..Len(LastCall) : LastCall[j].idx = i]
Returned == calls > 0 /\ failure = "none"

\* the skipped emissions: unknown-size array, empty vector, empty tuple,
\* integer of unrecognized width, pointer to something else than a state
SkippedParam(ty, p) ==
  \/ ty.k = "array" /\ isUnknownSize(ty)
  \/ ty.k = "stdvec" /\ LoadPtr(p + PtrBytes) = LoadPtr(p)
  \/ ty.k = "tuple" /\ ty.sub = <<>>
  \/ ty.k = "int" /\ ty.n \notin {1, 8, 16, 32, 64}
  \/ ty.k = "ptr" /\ ty.sub[1] # StateType

(* C1: after gen returns, a top-level parameter whose emission is skipped  *)
(* has no substitution record keyed by its index.                          *)
C1_SkippedHasNoRecord ==
  Returned =>
    \A i \in Params :
      SkippedParam(inputs[i + 1], arguments[i + 1]) => ~HasRecord(i)

(* C2: every step appends to the output list, leaving the records of the   *)
(* earlier calls in place, and the indices of the records one call appends *)
(* are strictly increasing.                                                *)
C2_AppendedInIndexOrder ==
  [][LET old == Len(substitutions)
         new == Len(substitutions')
     IN /\ new >= old
        /\ SubSeq(substitutions', 1, old) = substitutions
        /\ \A j \in (old + 1)..(new - 1) :
             substitutions'[j].idx < substitutions'[j + 1].idx]_vars

\* two calls, each of which appended two records
C2_Witness ==
  /\ calls = 2
  /\ prior = 2
  /\ Len(substitutions) = 4
  /\ substitutions[2].idx > substitutions[3].idx

\* whether the log holds a read of the state's amplitudes
ReadsAmplitudes ==
  \E m \in 1..Len(evlog) :
    evlog[m].e = "acquire" \/ (evlog[m].e = "read" /\ evlog[m].a >= TensorBase)

\* the complex constant of amplitude i (from 0) of a state of element size es
Amplitude(data, es, i, fTy) ==
  Val("complex", ComplexType(fTy),
      <<Val("float", fTy, Load(data + i * es, es \div 2)),
        Val("float", fTy, Load(data + i * es + es \div 2, es \div 2))>>)

(* C3: for a state-handle parameter the strategy follows the platform:     *)
(* simulator and local, the record holds the pointer value as a constant   *)
(* of pointer width cast to Pointer(StateHandle) and no amplitude is read; *)
(* simulator and remote, the amplitudes are read through readStateData and *)
(* the record holds an Array(Complex(F), n), F = F64 exactly for elements  *)
(* of the size of a double-precision complex; otherwise there is no value  *)
(* and the not-implemented failure is signalled.                           *)
C3_StateStrategy ==
  \A i \in Params :
    inputs[i + 1] = PtrState =>
      LET es == IF st.fp64 THEN ComplexDoubleBytes ELSE ComplexFloatBytes
          fTy == IF es = ComplexDoubleBytes THEN Float64Type ELSE Float32Type
          data == IF st.gpu THEN CopyBase ELSE TensorBase
      IN CASE platform.isSimulator /\ ~platform.isRemote ->
                /\ HasRecord(i)
                /\ RecordOf(i).body =
                     Val("cast", PointerType(StateType),
                         <<Val("cint", IntegerType(8 * PtrBytes),
                               <<arguments[i + 1]>>)>>)
                /\ ~ReadsAmplitudes
           [] platform.isSimulator /\ platform.isRemote ->
                /\ HasRecord(i)
                /\ RecordOf(i).body.k = "agg"
                /\ RecordOf(i).body.t = ArrayType(ComplexType(fTy), st.n)
                /\ \A a \in 0..(st.n - 1) :
                     RecordOf(i).body.x[a + 1] = Amplitude(data, es, a, fTy)
                /\ \E m \in 1..Len(evlog) : evlog[m].e = "acquire"
           [] OTHER ->
                /\ failure = "not_implemented"
                /\ \A h \in Params : h >= i => ~HasRecord(h)

\* a single-precision state on the GPU converted for a remote simulator
C3_Witness ==
  /\ \E i \in Params : inputs[i + 1] = PtrState /\ HasRecord(i)
  /\ platform.isSimulator /\ platform.isRemote
  /\ st.gpu /\ ~st.fp64 /\ st.n = MaxAmps

\* the byte addresses of the buffer of event ev
Buffer(ev) == ev.a..(ev.a + ev.n - 1)
\* the index of the first release of the buffer acquired at j, or 0
ReleaseOf(j) ==
  LET rs == { r \in (j + 1)..Len(evlog) :
                evlog[r].e = "release" /\ evlog[r].a = evlog[j].a }
  IN IF rs = {} THEN 0 ELSE CHOOSE r \in rs : \A q \in rs : r <= q
\* the index of the next acquire after j, or one past the end of the log
NextAcquire(j) ==
  LET as == { q \in (j + 1)..Len(evlog) : evlog[q].e = "acquire" }
  IN IF as = {} THEN Len(evlog) + 1 ELSE CHOOSE q \in as : \A r \in as : q <= r

(* C4: in the log of a gen call, every buffer obtained by readStateData    *)
(* is released once, after every byte of it was read, and no read of the   *)
(* buffer follows its release.                                             *)
C4_ReleasedAfterLastRead ==
  \A j \in 1..Len(evlog) :
    evlog[j].e = "acquire" =>
      LET r == ReleaseOf(j)
          nxt == NextAcquire(j)
      IN /\ r # 0 /\ r < nxt
         /\ evlog[r].own = evlog[j].own /\ evlog[r].n = evlog[j].n
         /\ \A q \in (j + 1)..(nxt - 1) :
              evlog[q].e = "release" => q = r
         /\ \A b \in Buffer(evlog[j]) :
              \E m \in (j + 1)..(r - 1) :
                evlog[m].e = "read" /\ b \in Buffer(evlog[m])
         /\ \A m \in (r + 1)..(nxt - 1) :
              evlog[m].e = "read" => Buffer(evlog[m]) \cap Buffer(evlog[j]) = {}

\* a GPU copy of MaxAmps amplitudes was acquired, read and released
C4_Witness ==
  \E j \in 1..Len(evlog) :
    /\ evlog[j].e = "acquire" /\ evlog[j].own
    /\ st.n = MaxAmps
    /\ ReleaseOf(j) > j + MaxAmps

\* the forward aggregate type of a tuple type
ForwardType(tupTy) == StructType(tupTy.sub)
\* the record type of the members in reverse order
ReversedType(tupTy) == StructType(Reverse(tupTy.sub))

(* C5: the aggregate emitted for a non-empty tuple parameter has, at every *)
(* position i, the value the walk of the reversed record over the same     *)
(* pointer produced for its field k-1-i; Tuple(Int8, Int32) over the bytes *)
(* 2A 00 00 00 FF gives field 0 = Int8(0xFF) and field 1 = Int32(0x2A);    *)
(* an empty tuple yields no value (whether a record is left for it is the  *)
(* matter of C1).                                                          *)
C5_TupleInvertsReversedWalk ==
  Returned =>
    \A i \in Params :
      inputs[i + 1].k = "tuple" =>
        LET tupTy == inputs[i + 1]
            p == arguments[i + 1]
            k == Len(tupTy.sub)
            walk == genConstantStruct(ReversedType(tupTy), p).v
        IN /\ IF k = 0 THEN HasRecord(i) => IsNull(RecordOf(i).body)
              ELSE /\ HasRecord(i)
                   /\ RecordOf(i).body.k = "agg"
                   /\ RecordOf(i).body.t = ForwardType(tupTy)
                   /\ Len(RecordOf(i).body.x) = k
                   /\ \A f \in 0..(k - 1) :
                        RecordOf(i).body.x[f + 1] = walk.x[(k - 1 - f) + 1]
           /\ (tupTy = TupleType(<<I8, I32>>) /\ Load(p, 5) = <<42, 0, 0, 0, 255>>) =>
                RecordOf(i).body.x =
                  <<Val("int", I8, <<255>>), Val("int", I32, <<42, 0, 0, 0>>)>>

\* Tuple(Int8, Int32) was converted from the bytes 2A 00 00 00 FF
C5_Witness ==
  /\ Returned
  /\ \E i \in Params :
       /\ inputs[i + 1] = TupleType(<<I8, I32>>)
       /\ Load(arguments[i + 1], 5) = <<42, 0, 0, 0, 255>>
       /\ HasRecord(i)

\* the offset of forward field f (from 0) as the sum of the sizes of the
\* members that follow it
OffsetBySizes(tupTy, f) == SumOfSizes(Reverse(tupTy.sub), Len(tupTy.sub) - 1 - f)
\* the offset of forward field f (from 0) as the layout reports it for the
\* record of reversed members
OffsetByLayout(tupTy, f) ==
  getDataOffset(layout, ReversedType(tupTy), Len(tupTy.sub) - 1 - f)

\* the value of member type ty stored at address a; an undefined field when
\* there is none
StoredValue(ty, a) ==
  LET v == dispatchSubtype(ty, a).v IN IF IsNull(v) THEN UndefOp(ty) ELSE v

(* C6 as stated: forward field i of the aggregate of a tuple is the value  *)
(* stored at the sum of the sizes of the members T_{k-1}..T_{i+1} from the *)
(* pointer, in every layout.                                               *)
C6_FieldAtSumOfSizes ==
  Returned =>
    \A i \in Params :
      inputs[i + 1].k = "tuple" /\ inputs[i + 1].sub # <<>> =>
        \A f \in 0..(Len(inputs[i + 1].sub) - 1) :
          RecordOf(i).body.x[f + 1] =
            StoredValue(inputs[i + 1].sub[f + 1],
                        arguments[i + 1] + OffsetBySizes(inputs[i + 1], f))

(* C6 amended: forward field i of the aggregate of a tuple is the value    *)
(* stored at the offset the layout reports for field k-1-i of the record   *)
(* of reversed members; in a layout without padding that offset is the sum *)
(* of the sizes of T_{k-1}..T_{i+1}.                                       *)
C6_FieldAtLayoutOffset ==
  Returned =>
    \A i \in Params :
      inputs[i + 1].k = "tuple" /\ inputs[i + 1].sub # <<>> =>
        \A f \in 0..(Len(inputs[i + 1].sub) - 1) :
          /\ RecordOf(i).body.x[f + 1] =
               StoredValue(inputs[i + 1].sub[f + 1],
                           arguments[i + 1] + OffsetByLayout(inputs[i + 1], f))
          /\ layout.abi = 1 =>
               OffsetByLayout(inputs[i + 1], f) = OffsetBySizes(inputs[i + 1], f)

\* a tuple converted under a layout that pads before one of its fields
C6_Witness ==
  /\ Returned
  /\ \E i \in Params :
       /\ inputs[i + 1].k = "tuple" /\ inputs[i + 1].sub # <<>>
       /\ HasRecord(i)
       /\ \E f \in 0..(Len(inputs[i + 1].sub) - 1) :
            OffsetByLayout(inputs[i + 1], f) # OffsetBySizes(inputs[i + 1], f)

-----------------------------------------------------------------------------
(* The circuit renderer: glyphs and merge_chars.                           *)

WIRE_LINE == 0
CONTROL_LINE == 1
WIRE_CONTROL_CROSS == 2
CONTROL == 3
BOX_LEFT_WIRE == 4
BOX_RIGHT_WIRE == 5
BOX_TOP_CONTROL == 6
BOX_BOTTOM_CONTROL == 7
BOX_TOP_LEFT_CORNER == 8
BOX_TOP_RIGHT_CORNER == 9
BOX_BOTTOM_LEFT_CORNER == 10
BOX_BOTTOM_RIGHT_CORNER == 11
SWAP_X == 12
\* ' '
Blank == 32

Glyphs == WIRE_LINE..SWAP_X

\* merge_chars without the cases of a control line merged into a cell
merge_charsNoControlLine(c0, c1) ==
  IF c0 = c1 THEN c0
  ELSE IF c0 = Blank THEN c1
  ELSE LET lo == IF c0 > c1 THEN c1 ELSE c0
           hi == IF c0 > c1 THEN c0 ELSE c1
       IN IF lo = WIRE_LINE
               /\ hi \in {BOX_TOP_LEFT_CORNER, BOX_TOP_RIGHT_CORNER}
          THEN BOX_BOTTOM_CONTROL
          ELSE IF lo = WIRE_LINE
               /\ hi \in {BOX_BOTTOM_LEFT_CORNER, BOX_BOTTOM_RIGHT_CORNER}
          THEN BOX_TOP_CONTROL
          ELSE IF lo = BOX_TOP_LEFT_CORNER /\ hi = BOX_BOTTOM_LEFT_CORNER
          THEN BOX_RIGHT_WIRE
          ELSE IF lo = BOX_TOP_RIGHT_CORNER /\ hi = BOX_BOTTOM_RIGHT_CORNER
          THEN BOX_LEFT_WIRE
          ELSE hi

\* the value merge_chars leaves in c0
merge_chars(c0, c1) ==
  IF c0 = c1 THEN c0
  ELSE IF c0 = Blank THEN c1
  ELSE IF c1 = CONTROL_LINE
  THEN CASE c0 \in {CONTROL, WIRE_CONTROL_CROSS} -> c0
         [] c0 = WIRE_LINE -> WIRE_CONTROL_CROSS
         [] OTHER -> CONTROL_LINE
  ELSE LET lo == IF c0 > c1 THEN c1 ELSE c0     \* c0 after the first swap
           hi == IF c0 > c1 THEN c0 ELSE c1     \* c1 after the first swap
       IN IF lo = WIRE_LINE
               /\ hi \in {BOX_TOP_LEFT_CORNER, BOX_TOP_RIGHT_CORNER}
          THEN BOX_BOTTOM_CONTROL
          ELSE IF lo = WIRE_LINE
               /\ hi \in {BOX_BOTTOM_LEFT_CORNER, BOX_BOTTOM_RIGHT_CORNER}
          THEN BOX_TOP_CONTROL
          ELSE IF lo = BOX_TOP_LEFT_CORNER /\ hi = BOX_BOTTOM_LEFT_CORNER
          THEN BOX_RIGHT_WIRE
          ELSE IF lo = BOX_TOP_RIGHT_CORNER /\ hi = BOX_BOTTOM_RIGHT_CORNER
          THEN BOX_LEFT_WIRE
          ELSE hi                               \* the final swap

\* the bytes a label is made of: ( ) , . > digits and lower-case letters
LabelBytes == {40, 41, 44, 46, 62} \cup (48..57) \cup (97..122)

CellValues == {Blank} \cup Glyphs \cup LabelBytes

MergeInit ==
  /\ ConvIdle
  /\ DrawIdle
  /\ cell \in CellValues
  /\ incoming = Blank
  /\ before = -1

\* one call merge_chars(cell, c1)
Merge ==
  /\ \E c1 \in CellValues :
       /\ incoming' = c1
       /\ cell' = merge_chars(cell, c1)
  /\ before' = cell
  /\ UNCHANGED <<convVars, drawVars>>

MergeNext == Merge

MergeSpec == MergeInit /\ [][MergeNext]_vars

(* C10: merge_chars is commutative for blank against non-blank and         *)
(* idempotent: merging a non-blank x into a blank cell and merging blank   *)
(* into a cell holding x both leave x in the cell, and merging x into a    *)
(* cell holding x leaves x.                                                *)
C10_BlankCommutesAndIdempotent ==
  before # -1 =>
    /\ (before = Blank /\ incoming # Blank) => cell = incoming
    /\ (incoming = Blank /\ before # Blank) => cell = before
    /\ (before = incoming) => cell = before

(* C15: merging a control line into a cell turns a wire cell into the      *)
(* wire/control cross, leaves a control dot and a cross as they are, and   *)
(* turns every other cell (blank, corner, tee, swap X, label byte) into    *)
(* the control line.                                                       *)
C15_ControlLineMerge ==
  (before # -1 /\ incoming = CONTROL_LINE) =>
    /\ before = WIRE_LINE => cell = WIRE_CONTROL_CROSS
    /\ before \in {CONTROL, WIRE_CONTROL_CROSS} => cell = before
    /\ before \notin {WIRE_LINE, CONTROL, WIRE_CONTROL_CROSS} =>
         cell = CONTROL_LINE

\* a control line was merged into a wire cell
C15_Witness ==
  before = WIRE_LINE /\ incoming = CONTROL_LINE /\ cell = WIRE_CONTROL_CROSS

-----------------------------------------------------------------------------
(* The circuit renderer: draw.  First the traces and the layer schedule.   *)

\* Largest number of qudits of a trace.
MaxQudits == 3
\* Largest number of instructions of a trace.
MaxTrace == 3

\* an instruction: name (bytes), target ids, control ids, rendered parameters
Inst(name, targets, controls, params) ==
  [name |-> name, targets |-> targets, controls |-> controls, params |-> params]

NameH == <<104>>                     \* "h"
NameX == <<120>>                     \* "x"
NameRx == <<114, 120>>               \* "rx"
NameSwap == <<115, 119, 97, 112>>    \* "swap"
\* the text of {:.4} for the parameter 1.5707963
HalfPi == <<49, 46, 53, 55, 49>>     \* "1.571"

LastWire == MaxQudits - 1

\* the instructions traces are made of
Instrs ==
  { Inst(NameH, <<0>>, <<>>, <<>>),
    Inst(NameX, <<LastWire>>, <<0>>, <<>>),
    Inst(NameX, <<1>>, <<LastWire, 0>>, <<>>),
    Inst(NameSwap, <<0, LastWire>>, <<1>>, <<>>),
    Inst(NameSwap, <<0, 1>>, <<>>, <<HalfPi>>),
    Inst(NameRx, <<1>>, <<>>, <<HalfPi>>),
    Inst(NameX, <<LastWire>>, <<0, 1>>, <<>>),
    Inst(NameX, <<LastWire>>, <<1, 0>>, <<>>),
    Inst(NameSwap, <<0, 1>>, <<LastWire>>, <<>>) }

\* a name of n letters a
NameWide(n) == [i \in 1..n |-> 97]

\* instructions on wire 0 whose boxes are 37, 73 and 74 columns wide: with
\* the prefix "q0 : ", 78 and 79 columns in one layer, 79 in two
WideInstrs ==
  { Inst(NameWide(n), <<0>>, <<>>, <<>>) : n \in {33, 69, 70} }

Traces ==
  UNION { [1..n -> Instrs] : n \in 0..MaxTrace }
  \cup UNION { [1..n -> WideInstrs \cup {Inst(NameH, <<0>>, <<>>, <<>>)}] :
               n \in 1..MaxTrace }

RECURSIVE MaxOf(_, _)
\* the largest element of a sequence of numbers, or least if it is empty
MaxOf(seq, least) ==
  IF seq = <<>> THEN least ELSE Max(Head(seq), MaxOf(Tail(seq), least))

RECURSIVE MinOf(_, _)
MinOf(seq, most) ==
  IF seq = <<>> THEN most ELSE Min(Head(seq), MinOf(Tail(seq), most))

\* Trace::getNumQudits: one more than the largest qudit id of the trace
getNumQudits(tr) ==
  MaxOf([i \in 1..Len(tr) |->
           MaxOf(tr[i].targets \o tr[i].controls, -1) + 1], 0)

RECURSIVE Join(_, _)
\* fmt::join(params, ",")
Join(params, sep) ==
  IF params = <<>> THEN <<>>
  ELSE IF Len(params) = 1 THEN params[1]
  ELSE params[1] \o sep \o Join(Tail(params), sep)

\* the name drawn: inst.name, or name(p1,p2,...) with parameters
NameOf(inst) ==
  IF inst.params = <<>> THEN inst.name
  ELSE inst.name \o <<40>> \o Join(inst.params, <<44>>) \o <<41>>

\* "{: ^{}}" with width name.size() + 2 * padding: one blank on each side
LabelOf(name) == <<Blank>> \o name \o <<Blank>>

\* std::sort(wires.begin(), wires.end())
SortedTargets(inst) == SortSeq(inst.targets, LAMBDA a, b : a < b)

min_target(inst) == SortedTargets(inst)[1]
max_target(inst) == SortedTargets(inst)[Len(inst.targets)]
\* the inclusive wire span over all targets and controls
min_dwire(inst) == MinOf(inst.controls, min_target(inst))
max_dwire(inst) == MaxOf(inst.controls, max_target(inst))

\* whether some control lies strictly between the targets
overlap(inst) ==
  \E c \in 1..Len(inst.controls) :
    inst.controls[c] > min_target(inst) /\ inst.controls[c] < max_target(inst)

\* the shape chosen for an instruction
ShapeOf(inst) ==
  LET wires == SortedTargets(inst) \o inst.controls
      name == NameOf(inst)
      label == LabelOf(name)
  IN IF overlap(inst)
     THEN [kind |-> "Box", label |-> label, wires |-> wires,
           num_targets |-> Len(inst.targets), num_controls |-> Len(inst.controls)]
     ELSE IF name = NameSwap
     THEN [kind |-> "DiagramSwap", label |-> <<>>, wires |-> wires,
           num_targets |-> 2, num_controls |-> Len(inst.controls)]
     ELSE [kind |-> "ControlledBox", label |-> label, wires |-> wires,
           num_targets |-> Len(inst.targets), num_controls |-> Len(inst.controls)]

\* Operator::width of the three shapes
width(shape) ==
  CASE shape.kind = "Box" ->
         Len(shape.label) + 2 + (IF shape.num_controls > 0 THEN 1 ELSE 0)
    [] shape.kind = "ControlledBox" -> Len(shape.label) + 2
    [] shape.kind = "DiagramSwap" -> 3

\* LayerOf placing every instruction after everything placed so far
LayerOfSequential(wl, lo, hi) ==
  MaxOf(wl, -1) + 1

\* LayerOf looking only at the first wire of the span
LayerOfFirstWire(wl, lo, hi) ==
  wl[lo + 1] + 1

\* LayerOf looking only at the last wire of the span
LayerOfLastWire(wl, lo, hi) ==
  wl[hi + 1] + 1

\* LayerOf looking only at the two ends of the span
LayerOfEnds(wl, lo, hi) ==
  Max(wl[lo + 1], wl[hi + 1]) + 1

\* the layer of an instruction of span [lo, hi]: one more than the highest
\* layer occupied on a wire of the span
LayerOf(wl, lo, hi) ==
  MaxOf([i \in 1..(hi - lo + 1) |-> wl[lo + i]], -1) + 1

-----------------------------------------------------------------------------
(* The diagram: prefix, columns, cutting points and the grid.              *)

max_columns == 80

\* Diagram::num_qubits_
num_qubits_ == getNumQudits(trace)
\* Diagram::height_
height_ == 2 * num_qubits_ + 1

\* Diagram::to_row
to_row(wire) ==
  IF wire < num_qubits_ THEN 2 * wire + 1 ELSE Len(rows) - 2

RECURSIVE Digits(_)
\* the decimal text of a non-negative number
Digits(n) ==
  IF n < 10 THEN <<48 + n>> ELSE Digits(n \div 10) \o <<48 + (n % 10)>>

\* fmt::format("q{} : ", i)
PrefixOf(i) == <<113>> \o Digits(i) \o <<32, 58, 32>>

\* prefix[row], row counted from 0: the label of the wire of that row
prefix(row) ==
  IF row % 2 = 1 /\ row \div 2 < num_qubits_ THEN PrefixOf(row \div 2)
  ELSE <<>>

prefix_size == MaxOf([i \in 1..num_qubits_ |-> Len(PrefixOf(i - 1))], 0)

\* set_cols putting every box at column 0
set_colsAtZero(shape, left_col) ==
  [left_col_ |-> 0, right_col_ |-> width(shape) - 1]

\* set_cols with the right column one too far
set_colsWide(shape, left_col) ==
  [left_col_ |-> left_col, right_col_ |-> left_col + width(shape)]

\* Operator::set_cols
set_cols(shape, left_col) ==
  [left_col_ |-> left_col, right_col_ |-> left_col + width(shape) - 1]

\* left_col_ and right_col_ before set_cols: not initialized, and not read,
\* every box being a member of a layer
NoCols == [left_col_ |-> -1, right_col_ |-> -1]

RECURSIVE WidthLoopLate(_, _, _, _, _)
\* the loop cutting only when the accumulated width exceeds max_columns - 1
WidthLoopLate(layer, curr_width, acc_width, cuts, cs) ==
  IF ~(layer < Len(layers))
  THEN [curr_width |-> curr_width,
        cutting_point |-> Append(cuts, curr_width),
        cols |-> cs]
  ELSE LET lw == layer_width[layer + 1]
           cut == (acc_width + lw) > (max_columns - 1)
       IN WidthLoopLate(layer + 1, curr_width + lw,
                        (IF cut THEN 0 ELSE acc_width) + lw,
                        IF cut THEN Append(cuts, curr_width) ELSE cuts,
                        [r \in 1..Len(boxes) |->
                           IF \E k \in 1..Len(layers[layer + 1]) :
                                layers[layer + 1][k] = r - 1
                           THEN set_cols(boxes[r],
                                         curr_width + (lw - width(boxes[r])) \div 2)
                           ELSE cs[r]])

RECURSIVE WidthLoop(_, _, _, _, _)
\* the loop over the layers: columns of the boxes, cutting points, width
WidthLoop(layer, curr_width, acc_width, cuts, cs) ==
  IF ~(layer < Len(layers))
  THEN [curr_width |-> curr_width,
        cutting_point |-> Append(cuts, curr_width),
        cols |-> cs]
  ELSE LET lw == layer_width[layer + 1]
           cut == (acc_width + lw) >= (max_columns - 1)
       IN WidthLoop(layer + 1, curr_width + lw,
                    (IF cut THEN 0 ELSE acc_width) + lw,
                    IF cut THEN Append(cuts, curr_width) ELSE cuts,
                    [r \in 1..Len(boxes) |->
                       IF \E k \in 1..Len(layers[layer + 1]) :
                            layers[layer + 1][k] = r - 1
                       THEN set_cols(boxes[r],
                                     curr_width + (lw - width(boxes[r])) \div 2)
                       ELSE cs[r]])

\* Diagram::width(int): blank rows, the rows of the wires filled with wire
DiagramWidth(w) ==
  [r \in 1..height_ |->
     [c \in 1..w |->
        IF (r - 1) % 2 = 1 /\ (r - 1) \div 2 < num_qubits_ THEN WIRE_LINE
        ELSE Blank]]

\* "Draw labels" and "Compute diagram width"
Widths ==
  /\ pc = "widths"
  /\ \E res \in {WidthLoop(0, 0, prefix_size, <<>>,
                            [r \in 1..Len(boxes) |-> NoCols])} :
       /\ cols' = res.cols
       /\ cutting_point' = res.cutting_point
       /\ rows' = DiagramWidth(res.curr_width)
  /\ drawn' = 0
  /\ pc' = "boxes"
  /\ UNCHANGED <<trace, ref, boxes, layers, layer_width, wire_layer, output>>
  /\ UNCHANGED <<convVars, mergeVars>>

-----------------------------------------------------------------------------
(* Drawing the boxes.  A draw method is the sequence of its writes to the  *)
(* grid, in the order the code makes them.                                 *)

\* diagram.at(row, col) = c, or merge_chars(diagram.at(row, col), c)
Cell(row, col, c, merge) == [row |-> row, col |-> col, c |-> c, merge |-> merge]

RECURSIVE Flat(_)
\* the writes of the iterations of a loop, one after the other
Flat(seqs) == IF seqs = <<>> THEN <<>> ELSE Head(seqs) \o Flat(Tail(seqs))

\* Box::set_vertical_positions, with the columns of the box
set_vertical_positions(c, top, bot) ==
  [left |-> c.left_col_, right |-> c.right_col_,
   box_top |-> to_row(top) - 1,
   box_bot |-> to_row(bot) + 1,
   box_mid |-> ((to_row(top) - 1) + (to_row(bot) + 1)) \div 2]

\* Box::draw_box
draw_box(g) ==
  [i \in 1..(2 * (g.right - g.left - 1)) |->
     Cell(IF i % 2 = 1 THEN g.box_top ELSE g.box_bot,
          g.left + ((i + 1) \div 2), WIRE_LINE, TRUE)]
  \o Flat([k \in 1..(g.box_bot - g.box_top - 1) |->
             <<Cell(g.box_top + k, g.left, CONTROL_LINE, FALSE),
               Cell(g.box_top + k, g.right, CONTROL_LINE, FALSE)>>
             \o [j \in 1..(g.right - g.left - 1) |->
                   Cell(g.box_top + k, g.left + j, Blank, FALSE)]])
  \o <<Cell(g.box_top, g.left, BOX_TOP_LEFT_CORNER, TRUE),
        Cell(g.box_bot, g.left, BOX_BOTTOM_LEFT_CORNER, TRUE),
        Cell(g.box_top, g.right, BOX_TOP_RIGHT_CORNER, TRUE),
        Cell(g.box_bot, g.right, BOX_BOTTOM_RIGHT_CORNER, TRUE)>>

\* Box::draw_targets; 62 is '>'
draw_targets(shape, g) ==
  Flat([t \in 1..shape.num_targets |->
          <<Cell(to_row(shape.wires[t]), g.left, BOX_LEFT_WIRE, FALSE),
            Cell(to_row(shape.wires[t]), g.right, BOX_RIGHT_WIRE, FALSE)>>
          \o (IF shape.num_controls > 0
               THEN <<Cell(to_row(shape.wires[t]), g.left + 1, 62, FALSE)>>
               ELSE <<>>)])

\* Box::draw_controls
BoxDrawControls(shape, g) ==
  Flat([t \in 1..shape.num_controls |->
          <<Cell(to_row(shape.wires[shape.num_targets + t]), g.left,
                 BOX_LEFT_WIRE, FALSE),
            Cell(to_row(shape.wires[shape.num_targets + t]), g.left + 1,
                 CONTROL, FALSE),
            Cell(to_row(shape.wires[shape.num_targets + t]), g.right,
                 BOX_RIGHT_WIRE, FALSE)>>])

\* the stem assigned to the cells, in place of merged with them
ControlStemUnmerged(row, mid_col, g) ==
  <<Cell(row, mid_col, CONTROL, FALSE)>>
  \o (IF row < g.box_top
       THEN [k \in 1..(g.box_top - row - 1) |->
               Cell(row + k, mid_col, CONTROL_LINE, FALSE)]
            \o <<Cell(g.box_top, mid_col, BOX_TOP_CONTROL, FALSE)>>
       ELSE [k \in 1..(row - g.box_bot - 1) |->
               Cell(g.box_bot + k, mid_col, CONTROL_LINE, FALSE)]
            \o <<Cell(g.box_bot, mid_col, BOX_BOTTOM_CONTROL, FALSE)>>)

\* the control dot of one control at row, its stem, and the tee on the box
ControlStem(row, mid_col, g) ==
  <<Cell(row, mid_col, CONTROL, FALSE)>>
  \o (IF row < g.box_top
       THEN [k \in 1..(g.box_top - row - 1) |->
               Cell(row + k, mid_col, CONTROL_LINE, TRUE)]
            \o <<Cell(g.box_top, mid_col, BOX_TOP_CONTROL, FALSE)>>
       ELSE [k \in 1..(row - g.box_bot - 1) |->
               Cell(g.box_bot + k, mid_col, CONTROL_LINE, TRUE)]
            \o <<Cell(g.box_bot, mid_col, BOX_BOTTOM_CONTROL, FALSE)>>)

\* ControlledBox::draw_controls
ControlledBoxDrawControls(shape, g) ==
  Flat([t \in 1..shape.num_controls |->
          ControlStem(to_row(shape.wires[shape.num_targets + t]),
                      (g.left + g.right) \div 2, g)])

\* Box::draw_label and ControlledBox::draw_label, from column label_start
draw_label(shape, g, label_start) ==
  [k \in 1..Len(shape.label) |->
     Cell(g.box_mid, label_start + k - 1, shape.label[k], FALSE)]

\* Box::draw
BoxDraw(shape, c) ==
  LET g == set_vertical_positions(c, MinOf(Tail(shape.wires), Head(shape.wires)),
                                  MaxOf(shape.wires, -1))
  IN draw_box(g) \o draw_targets(shape, g) \o BoxDrawControls(shape, g)
     \o draw_label(shape, g, c.left_col_ + 1
                               + (IF shape.num_controls > 0 THEN 1 ELSE 0))

\* ControlledBox::draw
ControlledBoxDraw(shape, c) ==
  LET targets == SubSeq(shape.wires, 1, shape.num_targets)
      g == set_vertical_positions(c, MinOf(Tail(targets), Head(targets)),
                                  MaxOf(targets, -1))
  IN draw_box(g) \o draw_targets(shape, g)
     \o ControlledBoxDrawControls(shape, g)
     \o draw_label(shape, g, c.left_col_ + 1)

\* the control dot of one control of a swap at row, and its stem
SwapControlStem(row, mid_col, target_row0, target_row1) ==
  <<Cell(row, mid_col, CONTROL, FALSE)>>
  \o (IF row < target_row0
       THEN [k \in 1..(target_row0 - row - 1) |->
               Cell(row + k, mid_col, CONTROL_LINE, TRUE)]
       ELSE [k \in 1..(row - target_row1 - 1) |->
               Cell(target_row1 + k, mid_col, CONTROL_LINE, TRUE)])

\* DiagramSwap::draw_controls
DiagramSwapDrawControls(shape, mid_col, target_row0, target_row1) ==
  Flat([t \in 1..shape.num_controls |->
          SwapControlStem(to_row(shape.wires[shape.num_targets + t]),
                          mid_col, target_row0, target_row1)])

\* DiagramSwap::draw
DiagramSwapDraw(shape, c) ==
  LET mid_col == c.left_col_ + 1
      target_row0 == to_row(shape.wires[1])
      target_row1 == to_row(shape.wires[2])
  IN <<Cell(target_row0, mid_col, SWAP_X, FALSE)>>
     \o [k \in 1..(target_row1 - target_row0 - 1) |->
           Cell(target_row0 + k, mid_col, CONTROL_LINE, TRUE)]
     \o <<Cell(target_row1, mid_col, SWAP_X, FALSE)>>
     \o DiagramSwapDrawControls(shape, mid_col, target_row0, target_row1)

\* box->draw(diagram): the virtual call
Writes(shape, c) ==
  CASE shape.kind = "Box" -> BoxDraw(shape, c)
    [] shape.kind = "ControlledBox" -> ControlledBoxDraw(shape, c)
    [] shape.kind = "DiagramSwap" -> DiagramSwapDraw(shape, c)

\* whether a write is to a cell of the grid
InGrid(grid, op) ==
  /\ 0 <= op.row /\ op.row < Len(grid)
  /\ 0 <= op.col /\ op.col < Len(grid[1])

RECURSIVE WriteCell(_, _)
\* a cell after the writes made to it, in their order
WriteCell(c0, ops) ==
  IF ops = <<>> THEN c0
  ELSE WriteCell(IF Head(ops).merge THEN merge_chars(c0, Head(ops).c)
                 ELSE Head(ops).c,
                 Tail(ops))

\* the grid after the writes, all of them to cells of the grid: every cell
\* takes the writes made to it
ApplyWrites(grid, ops) ==
  LET written == { <<ops[k].row, ops[k].col>> : k \in 1..Len(ops) }
      inRow == [r \in 1..Len(grid) |->
                  SelectSeq(ops, LAMBDA op : op.row = r - 1)]
  IN [r \in 1..Len(grid) |->
        [c \in 1..Len(grid[r]) |->
           IF <<r - 1, c - 1>> \in written
           THEN WriteCell(grid[r][c],
                          SelectSeq(inRow[r], LAMBDA op : op.col = c - 1))
           ELSE grid[r][c]]]

\* one iteration of "Draw boxes"; a write outside the grid ends the call
DrawBox ==
  /\ pc = "boxes"
  /\ drawn < Len(boxes)
  /\ \E ops \in {Writes(boxes[drawn + 1], cols[drawn + 1])} :
       IF \A k \in 1..Len(ops) : InGrid(rows, ops[k])
       THEN /\ rows' = ApplyWrites(rows, ops)
            /\ drawn' = drawn + 1
            /\ pc' = IF drawn + 1 = Len(boxes) THEN "render" ELSE "boxes"
       ELSE /\ pc' = "fault"
            /\ UNCHANGED <<rows, drawn>>
  /\ UNCHANGED <<trace, ref, boxes, layers, layer_width, wire_layer>>
  /\ UNCHANGED <<cols, cutting_point, output>>
  /\ UNCHANGED <<convVars, mergeVars>>

-----------------------------------------------------------------------------
(* Rendering the grid to text: a sequence of code points.                  *)

\* render_char: the glyph of a CharSet member, or nothing
render_char(c) ==
  CASE c = WIRE_LINE -> <<9472>>
    [] c = CONTROL_LINE -> <<9474>>
    [] c = WIRE_CONTROL_CROSS -> <<9532>>
    [] c = CONTROL -> <<9679>>
    [] c = BOX_LEFT_WIRE -> <<9508>>
    [] c = BOX_RIGHT_WIRE -> <<9500>>
    [] c = BOX_TOP_CONTROL -> <<9524>>
    [] c = BOX_BOTTOM_CONTROL -> <<9516>>
    [] c = BOX_TOP_LEFT_CORNER -> <<9581>>
    [] c = BOX_TOP_RIGHT_CORNER -> <<9582>>
    [] c = BOX_BOTTOM_LEFT_CORNER -> <<9584>>
    [] c = BOX_BOTTOM_RIGHT_CORNER -> <<9583>>
    [] c = SWAP_X -> <<9587>>
    [] OTHER -> <<>>

\* render_chars: every cell by its glyph, or by itself when it has none
render_chars(cells) ==
  [k \in 1..Len(cells) |->
     IF render_char(cells[k]) # <<>> THEN render_char(cells[k])[1]
     ELSE cells[k]]

\* fmt::format("{: >{}}", text, size)
PadLeft(text, size) ==
  [k \in 1..(Max(size, Len(text)) - Len(text)) |-> Blank] \o text

\* fmt::format("\n{:#^{}}\n\n", "", max_columns)
Separator == <<10>> \o [k \in 1..max_columns |-> 35] \o <<10, 10>>

\* the column the segment i (from 1) starts at
SegmentStart(i) == IF i = 1 THEN 0 ELSE cutting_point[i - 1]

\* the line of row (from 0) in the segment i (from 1); 187 is the mark of
\* a line continued in the next segment
RenderLine(i, row) ==
  (IF i = 1 THEN PadLeft(prefix(row), prefix_size) ELSE <<>>)
  \o render_chars(SubSeq(rows[row + 1], SegmentStart(i) + 1, cutting_point[i]))
  \o (IF i < Len(cutting_point) THEN <<187>> ELSE <<>>)
  \o <<10>>

\* the loop over the cutting points
Render ==
  /\ pc = "render"
  /\ output' = Flat([i \in 1..Len(cutting_point) |->
                       (IF i > 1 THEN Separator ELSE <<>>)
                       \o Flat([r \in 1..height_ |-> RenderLine(i, r - 1)])])
  /\ pc' = "done"
  /\ UNCHANGED <<trace, ref, boxes, layers, layer_width, wire_layer>>
  /\ UNCHANGED <<cols, cutting_point, rows, drawn>>
  /\ UNCHANGED <<convVars, mergeVars>>

\* "<empty trace>"
EmptyTraceText == <<60, 101, 109, 112, 116, 121, 32, 116, 114, 97, 99, 101, 62>>

DrawInit ==
  /\ ConvIdle
  /\ MergeIdle
  /\ trace \in Traces
  /\ pc = "layers"
  /\ ref = 0
  /\ boxes = <<>>
  /\ layers = <<>>
  /\ layer_width = <<>>
  /\ wire_layer = [w \in 1..getNumQudits(trace) |-> -1]
  /\ cols = <<>>
  /\ cutting_point = <<>>
  /\ rows = <<>>
  /\ drawn = 0
  /\ output = <<>>

\* if (trace.begin() == trace.end()) return "<empty trace>";
ReturnEmpty ==
  /\ pc = "layers"
  /\ trace = <<>>
  /\ pc' = "done"
  /\ output' = EmptyTraceText
  /\ UNCHANGED <<trace, ref, boxes, layers, layer_width, wire_layer>>
  /\ UNCHANGED <<cols, cutting_point, rows, drawn>>
  /\ UNCHANGED <<convVars, mergeVars>>

\* one iteration of the loop over the trace
Place ==
  /\ pc = "layers"
  /\ ref < Len(trace)
  /\ LET inst == trace[ref + 1]
         shape == ShapeOf(inst)
         lo == min_dwire(inst)
         hi == max_dwire(inst)
         layer == LayerOf(wire_layer, lo, hi)
         grown == IF layer = Len(layers) THEN Append(layers, <<>>) ELSE layers
         widths == IF layer = Len(layers) THEN Append(layer_width, 0)
                   ELSE layer_width
     IN /\ layers' = [grown EXCEPT ![layer + 1] = Append(@, ref)]
        /\ wire_layer' = [w \in 1..Len(wire_layer) |->
                            IF lo <= w - 1 /\ w - 1 <= hi THEN layer
                            ELSE wire_layer[w]]
        /\ layer_width' = [widths EXCEPT ![layer + 1] = Max(@, width(shape))]
        /\ boxes' = Append(boxes, shape)
  /\ ref' = ref + 1
  /\ pc' = IF ref + 1 = Len(trace) THEN "widths" ELSE "layers"
  /\ UNCHANGED <<trace, cols, cutting_point, rows, drawn, output>>
  /\ UNCHANGED <<convVars, mergeVars>>

DrawNext == ReturnEmpty \/ Place \/ Widths \/ DrawBox \/ Render

DrawSpec == DrawInit /\ [][DrawNext]_vars

-----------------------------------------------------------------------------
(* Properties of the layer schedule. *)

\* the layer (from 0) instruction r (from 0) was placed in
LayerPlaced(r) == CHOOSE l \in 0..(Len(layers) - 1) :
                    \E k \in 1..Len(layers[l + 1]) : layers[l + 1][k] = r
\* the inclusive wire span of instruction r (from 0)
Span(r) == min_dwire(trace[r + 1])..max_dwire(trace[r + 1])
\* the instructions placed so far
Placed == 0..(ref - 1)
Members(l) == { layers[l + 1][k] : k \in 1..Len(layers[l + 1]) }

(* C8: no two placed instructions whose wire spans share a wire are in the *)
(* same layer.                                                             *)
C8_OverlappingSpansInDifferentLayers ==
  \A a, b \in Placed :
    a # b /\ Span(a) \cap Span(b) # {} => LayerPlaced(a) # LayerPlaced(b)

\* a whole trace was placed, two instructions of overlapping spans among it
C8_Witness ==
  /\ pc = "widths"
  /\ \E a, b \in Placed :
       a # b /\ Span(a) \cap Span(b) # {} /\ Span(a) # Span(b)

(* C9 as stated: every layer is maximal: no instruction placed in another  *)
(* layer has a span disjoint from the spans of all members of the layer.   *)
C9_LayersMaximal ==
  \A l \in 0..(Len(layers) - 1) :
    \A r \in Placed :
      LayerPlaced(r) # l =>
        \E m \in Members(l) : Span(r) \cap Span(m) # {}

(* C9 amended: the members of a layer have pairwise disjoint spans, and a  *)
(* layer is maximal against the layer that follows it: no instruction      *)
(* placed in the next layer has a span disjoint from the spans of all      *)
(* members of the layer.                                                   *)
C9_LayersMaximalAgainstNext ==
  \A l \in 0..(Len(layers) - 1) :
    /\ \A a, b \in Members(l) : a # b => Span(a) \cap Span(b) = {}
    /\ \A r \in Placed :
         LayerPlaced(r) = l + 1 =>
           \E m \in Members(l) : Span(r) \cap Span(m) # {}

\* three layers, the last of one instruction whose span is disjoint from a
\* member of the first
C9_Witness ==
  /\ pc = "widths"
  /\ Len(layers) = 3
  /\ \E r \in Members(2), m \in Members(0) : Span(r) \cap Span(m) = {}

(* C11 as stated: the shape follows from the name, the targets and the     *)
(* controls: a control strictly between the targets gives a Box; else the  *)
(* name swap gives a Swap, with or without parameters; else a              *)
(* ControlledBox.                                                          *)
C11_ShapeByNameTargetsControls ==
  \A r \in Placed :
    boxes[r + 1].kind =
      IF overlap(trace[r + 1]) THEN "Box"
      ELSE IF trace[r + 1].name = NameSwap THEN "DiagramSwap"
      ELSE "ControlledBox"

\* the highest layer among the placed instructions whose span contains wire
\* w (from 0), or -1
HighestLayerOn(w) ==
  MaxOf([r \in 1..ref |->
           IF w \in Span(r - 1) THEN LayerPlaced(r - 1) ELSE -1], -1)

WireLayerTracksHighest ==
  \A w \in 1..Len(wire_layer) : wire_layer[w] = HighestLayerOn(w - 1)

(* C14: after every prefix of the trace, wire_layer[i] is the highest      *)
(* layer among the placed instructions whose span contains i, or -1; and   *)
(* each instruction is placed in the layer 1 + max of wire_layer over its  *)
(* span as it was before, which is at most the number of layers created    *)
(* so far.                                                                 *)
C14_WireLayerInvariant ==
  /\ WireLayerTracksHighest
  /\ [][ref' = ref + 1 =>
          /\ WireLayerTracksHighest'
          /\ \E l \in 0..Len(layers) :
               /\ \A w \in Span(ref) : wire_layer[w + 1] < l
               /\ \E w \in Span(ref) : wire_layer[w + 1] = l - 1
               /\ l < Len(layers')
               /\ ref \in {layers'[l + 1][k] : k \in 1..Len(layers'[l + 1])}]_vars

\* an instruction over several wires went into a layer above 0 behind
\* instructions of different layers
C14_Witness ==
  /\ pc = "widths"
  /\ \E r \in Placed :
       /\ LayerPlaced(r) = 2
       /\ Cardinality(Span(r)) = MaxQudits
       /\ \E w \in 1..Len(wire_layer) : wire_layer[w] = 2
  /\ \E a, b \in Placed : LayerPlaced(a) = 0 /\ LayerPlaced(b) = 1

(* C17: of two instructions whose spans share a wire, the one earlier in   *)
(* the trace is in the lower layer; and every instruction of a layer       *)
(* L > 0 has an earlier instruction of an overlapping span in layer L - 1. *)
C17_TraceOrderOnSharedWires ==
  /\ \A a, b \in Placed :
       (a < b /\ Span(a) \cap Span(b) # {}) => LayerPlaced(a) < LayerPlaced(b)
  /\ \A b \in Placed :
       LayerPlaced(b) > 0 =>
         \E a \in Placed :
           /\ a < b
           /\ LayerPlaced(a) = LayerPlaced(b) - 1
           /\ Span(a) \cap Span(b) # {}

\* an instruction was placed in layer 1 behind an instruction it shares a
\* wire with, after an instruction of another wire
C17_Witness ==
  /\ pc = "widths"
  /\ \E a, b, c \in Placed :
       /\ a < b /\ b < c
       /\ Span(a) \cap Span(b) = {}
       /\ Span(a) \cap Span(c) # {}
       /\ LayerPlaced(c) = 1

-----------------------------------------------------------------------------
(* Properties of the columns and the cutting points. *)

\* the columns are laid out: true from the end of "Compute diagram width"
LaidOut == pc \in {"boxes", "render", "done", "fault"} /\ trace # <<>>

\* the first column of layer l (from 0); l = Len(layers) gives the width
LayerStart(l) ==
  LET Sum[k \in 0..l] == IF k = 0 THEN 0 ELSE Sum[k - 1] + layer_width[k]
  IN Sum[l]

\* the wrap points: the cutting points except the final one
WrapPoints == { cutting_point[i] : i \in 1..(Len(cutting_point) - 1) }

\* the accumulated width in front of layer l: the columns since the last
\* wrap point before the layer, or the prefix and the columns if none
AccBefore(l) ==
  LET prev == { c \in WrapPoints : c < LayerStart(l) }
  IN IF prev = {} THEN prefix_size + LayerStart(l)
     ELSE LayerStart(l) - (CHOOSE c \in prev : \A d \in prev : d <= c)

\* the layers whose columns are in the segment i (from 1)
LayersOfSegment(i) ==
  { l \in 0..(Len(layers) - 1) :
      /\ SegmentStart(i) <= LayerStart(l)
      /\ LayerStart(l + 1) <= cutting_point[i] }

\* the width of the segment i, the prefix included for the first
SegmentWidth(i) ==
  cutting_point[i] - SegmentStart(i) + (IF i = 1 THEN prefix_size ELSE 0)

\* C12: a layer starts a new segment exactly when the accumulated width in
\* front of it plus its own width is at least 79, the accumulated width
\* starting at the width of the prefix; so no segment of more than one
\* layer is 79 columns wide or wider.
C12_WrapAtSeventyNine ==
  LaidOut =>
    /\ \A l \in 0..(Len(layers) - 1) :
         LayerStart(l) \in WrapPoints
           <=> AccBefore(l) + layer_width[l + 1] >= 79
    /\ \A i \in 1..Len(cutting_point) :
         Cardinality(LayersOfSegment(i)) > 1 => SegmentWidth(i) < 79

\* two layers that together with the prefix are exactly 79 columns wide,
\* rendered in two segments
C12_Witness ==
  /\ pc = "done"
  /\ Len(layers) = 2
  /\ prefix_size + layer_width[1] + layer_width[2] = 79
  /\ cutting_point = <<layer_width[1], layer_width[1] + layer_width[2]>>

\* C16: every wrap point is the column boundary between two consecutive
\* layers; every segment, the first included, holds the columns of at least
\* one whole layer; and the columns of every layer are in one segment.
C16_WrapPointsBetweenLayers ==
  LaidOut =>
    /\ \A c \in WrapPoints :
         \E l \in 1..(Len(layers) - 1) : c = LayerStart(l)
    /\ \A i \in 1..Len(cutting_point) : LayersOfSegment(i) # {}
    /\ \A l \in 0..(Len(layers) - 1) :
         \E i \in 1..Len(cutting_point) : l \in LayersOfSegment(i)

-----------------------------------------------------------------------------
(* Properties of the drawing. *)

\* the writes of instruction r (from 0), the columns laid out
WritesOf(r) == Writes(boxes[r + 1], cols[r + 1])

\* C18: no write leaves the grid of 2Q+1 rows and as many columns as the
\* layers are wide together, Q the number of qudits of the trace; the
\* instruction about to be drawn has its columns inside the column range of
\* its layer, the ranges of the layers following one another from column 0
\* to the width; and it writes rows 2*min to 2*max+2 of its span only.
C18_WritesInsideGrid ==
  /\ pc # "fault"
  /\ (pc = "boxes" /\ drawn < Len(boxes)) =>
       /\ Len(rows) = 2 * getNumQudits(trace) + 1
       /\ \A r \in 1..Len(rows) : Len(rows[r]) = LayerStart(Len(layers))
       /\ cutting_point[Len(cutting_point)] = LayerStart(Len(layers))
       /\ LayerStart(LayerPlaced(drawn)) <= cols[drawn + 1].left_col_
       /\ cols[drawn + 1].left_col_ <= cols[drawn + 1].right_col_
       /\ cols[drawn + 1].right_col_ < LayerStart(LayerPlaced(drawn) + 1)
       /\ \A ops \in {WritesOf(drawn)} :
            \A height \in {2 * getNumQudits(trace) + 1} :
              \A total \in {LayerStart(Len(layers))} :
                \A k \in 1..Len(ops) :
                  /\ 0 <= ops[k].row /\ ops[k].row < height
                  /\ 0 <= ops[k].col /\ ops[k].col < total
                  /\ cols[drawn + 1].left_col_ <= ops[k].col
                  /\ ops[k].col <= cols[drawn + 1].right_col_
                  /\ 2 * min_dwire(trace[drawn + 1]) <= ops[k].row
                  /\ ops[k].row <= 2 * max_dwire(trace[drawn + 1]) + 2

\* a trace of several layers with a plain box in the last one, all drawn
C18_Witness ==
  /\ pc = "done"
  /\ drawn = Len(boxes)
  /\ Len(layers) >= 2
  /\ boxes[Len(boxes)].kind = "Box"
  /\ LayerPlaced(Len(boxes) - 1) = Len(layers) - 1

\* the cells instruction r (from 0) writes, as <<row, column>>
CellsOf(r) ==
  UNION { { <<ops[k].row, ops[k].col>> : k \in 1..Len(ops) } :
          ops \in {WritesOf(r)} }

\* every instruction is drawn
AllDrawn == pc \in {"render", "done"} /\ drawn = Len(boxes)

\* C13: in the grid with every instruction drawn, every instruction has a
\* cell it wrote that no later instruction wrote and that holds neither the
\* wire glyph nor a blank.
C13_EveryInstructionShows ==
  AllDrawn =>
    \A cells \in {[r \in 1..Len(boxes) |-> CellsOf(r - 1)]} :
      \A r \in 1..Len(boxes) :
        \E at \in cells[r] :
          /\ rows[at[1] + 1][at[2] + 1] \notin {WIRE_LINE, Blank}
          /\ \A later \in (r + 1)..Len(boxes) : at \notin cells[later]

\* three instructions drawn, two of them in one layer and sharing the row
\* between their wires
C13_Witness ==
  /\ AllDrawn
  /\ Len(boxes) = 3
  /\ \E l \in 1..Len(layers) : Len(layers[l]) = 2
  /\ \E a, b \in 1..Len(boxes) :
       a < b /\ CellsOf(a - 1) \cap CellsOf(b - 1) # {}

\* the column of the control dots of instruction r (from 0): the one after
\* the left edge for a plain box, the middle one for the other shapes
DotColumn(r) ==
  IF boxes[r + 1].kind = "Box" THEN cols[r + 1].left_col_ + 1
  ELSE (cols[r + 1].left_col_ + cols[r + 1].right_col_) \div 2

\* C19: in the grid with every instruction drawn, the row of every control
\* wire of every instruction holds a control dot in the column of the dots
\* of that instruction, in whatever order the controls are listed.
C19_ControlDotsShow ==
  AllDrawn =>
    \A r \in 1..Len(trace) :
      \A k \in 1..Len(trace[r].controls) :
        rows[2 * trace[r].controls[k] + 1 + 1][DotColumn(r - 1) + 1] = CONTROL

\* drawn: an instruction whose second control is above its first, both above
\* the target, so that the stem of the second crosses the dot of the first
C19_Witness ==
  /\ AllDrawn
  /\ \E r \in 1..Len(trace) :
       /\ Len(trace[r].controls) = 2
       /\ trace[r].controls[2] < trace[r].controls[1]
       /\ trace[r].controls[1] < min_target(trace[r])
       /\ boxes[r].kind = "ControlledBox"

=============================================================================
